---- MODULE Spec2Model ----
(***************************************************************************)
(* The segmented commit log of samuelorji/rustlog: Store, Index, Segment   *)
(* and Log (src/src/log/{store,index,segment,log}.rs).                     *)
(*                                                                         *)
(* Files are modelled by their contents.  A store file is its bytes.  An   *)
(* index file is its length in bytes plus the 12-byte entries written into *)
(* it (bytes never written read as zero).  Files are kept in the sequence  *)
(* `files` and named by their position in it (the inode): an object keeps  *)
(* its file after the path is unlinked, and two objects opened on the same *)
(* path share one file.                                                    *)
(*                                                                         *)
(* Option<T> is a sequence of length 0 (None) or 1 (Some).                 *)
(***************************************************************************)
EXTENDS Integers, Sequences, FiniteSets, TLC

\* ------------------------------------------------------------------ bounds
\* number of Log.append / Segment.append / Index.write calls explored
MaxAppends == 3
\* number of Log::new constructions explored after the first
MaxReopens == 1

\* ------------------------------------------------------- program constants
LEN_WIDTH == 8
INDEX_RECORD_OFFSET_LENGTH == 4
POSITION_IN_STORE_FILE_LENGTH == 8
INDEX_ENTRY_LENGTH == INDEX_RECORD_OFFSET_LENGTH + POSITION_IN_STORE_FILE_LENGTH

\* ------------------------------------------------------------------ inputs
\* record payloads handed to append (Vec<u8>)
Values == {<<1>>, <<2, 2, 2>>, <<3, 3, 3, 3>>}
\* the offset field of a record handed to append
CallerOffsets == {<<>>, <<9>>}
Records == {r \in [value : Values, offset : CallerOffsets] :
              r.offset = <<>> \/ r.value = <<1>>}

\* the configurations explored
Configs ==
  { [max_index_bytes |-> 36, max_store_bytes |-> 30, initial_offset |-> 2, max_record_size_kb |-> 3],
    [max_index_bytes |-> 24, max_store_bytes |-> 100, initial_offset |-> 0, max_record_size_kb |-> 3],
    [max_index_bytes |-> 24, max_store_bytes |-> 100, initial_offset |-> 2, max_record_size_kb |-> 3],
    [max_index_bytes |-> 30, max_store_bytes |-> 50, initial_offset |-> 0, max_record_size_kb |-> 3],
    [max_index_bytes |-> 36, max_store_bytes |-> 14, initial_offset |-> 0, max_record_size_kb |-> 3] }

\* ------------------------------------------------------------- arithmetic
Min(a, b) == IF a < b THEN a ELSE b

\* An unsigned subtraction a - b that went below zero.  With overflow checks
\* (debug build) the program panics; without (release build) the result wraps
\* to 2^64 + (a - b), which is written here as the negative number a - b.
Underflows(a, b) == a < b

\* ------------------------------------------------------ record wire schema
\* field 1 `value` (bytes, left out when empty): tag 10, length, bytes;
\* field 2 `offset` (optional u64): tag 16, varint.  Lengths and offsets
\* below 128 take one byte.
Encode(record) ==
  (IF Len(record.value) > 0 THEN <<10, Len(record.value)>> \o record.value ELSE <<>>)
  \o (IF Len(record.offset) > 0 THEN <<16, record.offset[1]>> ELSE <<>>)

\* result of prost::Message::decode: [ok, record]
Decode(buf) ==
  LET hasValue == Len(buf) >= 2 /\ buf[1] = 10
      vlen == IF hasValue THEN buf[2] ELSE 0
      vend == IF hasValue THEN 2 + vlen ELSE 0
      rest == IF vend <= Len(buf) THEN SubSeq(buf, vend + 1, Len(buf)) ELSE <<0>>
  IN IF vend <= Len(buf) /\ rest = <<>>
       THEN [ok |-> TRUE, record |-> [value |-> SubSeq(buf, 3, vend), offset |-> <<>>]]
     ELSE IF vend <= Len(buf) /\ Len(rest) = 2 /\ rest[1] = 16 /\ rest[2] < 128
       THEN [ok |-> TRUE, record |-> [value |-> SubSeq(buf, 3, vend), offset |-> <<rest[2]>>]]
     ELSE [ok |-> FALSE, record |-> [value |-> <<>>, offset |-> <<>>]]

\* ------------------------------------------------------------------- Store
\* 8-byte big-endian length prefix
LenPrefix(n) == <<0, 0, 0, 0, 0, n \div 65536, (n \div 256) % 256, n % 256>>

\* BigEndian::read_u64 of 8 bytes; -1 stands for a length of 2^24 or more,
\* which no file of the model holds
ReadLen(b) ==
  IF b[1] = 0 /\ b[2] = 0 /\ b[3] = 0 /\ b[4] = 0 /\ b[5] = 0
    THEN b[6] * 65536 + b[7] * 256 + b[8]
    ELSE -1

\* Store::new: size is the current length of the file
StoreNew(bytes) == [size |-> Len(bytes)]

\* Store::can_store_record taking a frame that ends exactly at max_store_bytes
can_store_record_AtMost(store, record_len, config) ==
  store.size + (record_len + LEN_WIDTH) <= config.max_store_bytes

can_store_record(store, record_len, config) ==
  store.size + (record_len + LEN_WIDTH) < config.max_store_bytes

\* Store::append advancing size by the payload only
StoreAppend_PayloadOnly(store, bytes, value) ==
  [store |-> [size |-> store.size + Len(value)],
   bytes |-> bytes \o LenPrefix(Len(value)) \o value,
   total_written |-> Len(value) + LEN_WIDTH,
   position |-> store.size]

\* Store::append: the file is opened in append mode, so the frame lands at the
\* end of the file; position is the object's size
StoreAppend(store, bytes, value) ==
  [store |-> [size |-> store.size + Len(value) + LEN_WIDTH],
   bytes |-> bytes \o LenPrefix(Len(value)) \o value,
   total_written |-> Len(value) + LEN_WIDTH,
   position |-> store.size]

\* Store::read: read_exact_at of the prefix, then of the payload
StoreRead(bytes, position) ==
  IF position + LEN_WIDTH > Len(bytes) THEN [ok |-> FALSE, value |-> <<>>]
  ELSE LET n == ReadLen(SubSeq(bytes, position + 1, position + LEN_WIDTH))
       IN IF n < 0 \/ position + LEN_WIDTH + n > Len(bytes)
            THEN [ok |-> FALSE, value |-> <<>>]
            ELSE [ok |-> TRUE,
                  value |-> SubSeq(bytes, position + LEN_WIDTH + 1, position + LEN_WIDTH + n)]

\* ------------------------------------------------------------------- Index
ZeroEntry == [record_offset |-> 0, position |-> 0]

\* File::set_len on an index file [len, entries]
SetLen(ifile, n) ==
  [len |-> n,
   entries |-> SubSeq(ifile.entries, 1, Min(Len(ifile.entries), n \div INDEX_ENTRY_LENGTH))]

\* Index::new: size is the length found, then the file is extended to
\* max_index_bytes and mapped
IndexNew(ifile, config) ==
  [index |-> [size |-> ifile.len, mmap_len |-> config.max_index_bytes],
   ifile |-> SetLen(ifile, config.max_index_bytes)]

\* Index::close without the truncation to size
IndexClose_NoTruncate(index, ifile) == ifile

\* Index::close
IndexClose(index, ifile) == SetLen(ifile, index.size)

\* Index::read: kind is "Some", "None" or "Panic" (slice out of the mapping).
\* A wrapped index_position (negative here) times 12 wraps to a position far
\* beyond size.
IndexRead(index, ifile, index_position) ==
  LET position_in_index_file == index_position * INDEX_ENTRY_LENGTH
      k == index_position + 1
  IN IF index.size = 0 THEN [kind |-> "None", entry |-> ZeroEntry]
     ELSE IF index_position < 0 \/ position_in_index_file >= index.size
       THEN [kind |-> "None", entry |-> ZeroEntry]
     ELSE IF position_in_index_file + INDEX_ENTRY_LENGTH > index.mmap_len
       THEN [kind |-> "Panic", entry |-> ZeroEntry]
     ELSE [kind |-> "Some",
           entry |-> IF k <= Len(ifile.entries) THEN ifile.entries[k] ELSE ZeroEntry]

read_last_entry(index, ifile) ==
  IF index.size = 0 THEN [kind |-> "None", entry |-> ZeroEntry]
  ELSE IndexRead(index, ifile, (index.size \div INDEX_ENTRY_LENGTH) - 1)

\* Index::write: [ok, index, ifile]; the entry goes to bytes size..size+12 of
\* the mapping
IndexWrite(index, ifile, record_offset, position) ==
  IF index.mmap_len < index.size + INDEX_ENTRY_LENGTH
    THEN [ok |-> FALSE, index |-> index, ifile |-> ifile]
    ELSE LET k == index.size \div INDEX_ENTRY_LENGTH
             e == [record_offset |-> record_offset, position |-> position]
             old == ifile.entries
             padded == old \o [i \in 1..(k - Len(old)) |-> ZeroEntry]
         IN [ok |-> TRUE,
             index |-> [index EXCEPT !.size = index.size + INDEX_ENTRY_LENGTH],
             ifile |-> [ifile EXCEPT !.entries =
                          IF k + 1 <= Len(old)
                            THEN [old EXCEPT ![k + 1] = e]
                            ELSE Append(padded, e)]]

\* ----------------------------------------------------------------- Segment
\* A segment object: its Store and Index objects, base_offset, next_offset,
\* the directory it was opened on (named by a number) and the file pair
\* (.store, .index) it holds open.
EmptyFiles == [store |-> <<>>, index |-> [len |-> 0, entries |-> <<>>]]

\* 2^32 lies beyond the integers of TLC; 2^30 stands for it.  Every offset a
\* call is given or assigns in the model is far below both.
TwoTo32 == 1073741824

\* `e.record_offset as u64`: the u32 field of an entry, zero-extended.  A
\* wrapped relative offset r < 0 is held by the field as 2^32 + r.
AsU64(record_offset) ==
  IF record_offset < 0 THEN TwoTo32 + record_offset ELSE record_offset

\* Segment::new on an existing directory: [segment, files, dirs].
\* dirs[d] is the file pair linked under directory d, 0 when it holds none.
SegmentNew(fs, ds, dir, base_offset, config) ==
  LET created == ds[dir] = 0
      fs1 == IF created THEN Append(fs, EmptyFiles) ELSE fs
      ino == IF created THEN Len(fs1) ELSE ds[dir]
      store == StoreNew(fs1[ino].store)
      opened == IndexNew(fs1[ino].index, config)
      last_entry == read_last_entry(opened.index, opened.ifile)
      next_offset ==
        IF last_entry.kind = "Some"
          THEN AsU64(last_entry.entry.record_offset) + 1
          ELSE base_offset
  IN [segment |-> [store |-> store, index |-> opened.index,
                   base_offset |-> base_offset, next_offset |-> next_offset,
                   dir |-> dir, file |-> ino],
      files |-> [fs1 EXCEPT ![ino].index = opened.ifile],
      dirs |-> [ds EXCEPT ![dir] = ino]]

\* Segment::append with the capacity check made after the store was written
SegmentAppend_WriteFirst(segment, fs, record0, config, checks) ==
  LET record_offset == segment.next_offset
      record == IF record0.offset = <<>>
                  THEN [record0 EXCEPT !.offset = <<record_offset>>]
                  ELSE record0
      record_buf == Encode(record)
      f == fs[segment.file]
      stored == StoreAppend(segment.store, f.store, record_buf)
      fs1 == [fs EXCEPT ![segment.file].store = stored.bytes]
      seg1 == [segment EXCEPT !.store = stored.store]
      index_offset == record_offset - segment.base_offset
      written == IndexWrite(segment.index, f.index, index_offset, stored.position)
  IN IF ~can_store_record(segment.store, Len(record_buf), config)
       THEN [kind |-> "StoreFull", offset |-> 0, record |-> record,
             segment |-> seg1, files |-> fs1]
     ELSE IF Underflows(record_offset, segment.base_offset) /\ checks
       THEN [kind |-> "Panic", offset |-> 0, record |-> record,
             segment |-> seg1, files |-> fs1]
     ELSE IF ~written.ok
       THEN [kind |-> "IndexFull", offset |-> 0, record |-> record,
             segment |-> seg1, files |-> fs1]
     ELSE [kind |-> "Ok", offset |-> record_offset, record |-> record,
           segment |-> [seg1 EXCEPT !.index = written.index,
                                    !.next_offset = segment.next_offset + 1],
           files |-> [fs1 EXCEPT ![segment.file].index = written.ifile]]

\* Segment::append: kind is "Ok", "StoreFull", "IndexFull" or "Panic";
\* record is the record as encoded (carried back by StoreFull).
SegmentAppend(segment, fs, record0, config, checks) ==
  LET record_offset == segment.next_offset
      record == IF record0.offset = <<>>
                  THEN [record0 EXCEPT !.offset = <<record_offset>>]
                  ELSE record0
      record_buf == Encode(record)
      f == fs[segment.file]
      stored == StoreAppend(segment.store, f.store, record_buf)
      fs1 == [fs EXCEPT ![segment.file].store = stored.bytes]
      seg1 == [segment EXCEPT !.store = stored.store]
      index_offset == record_offset - segment.base_offset
      written == IndexWrite(segment.index, f.index, index_offset, stored.position)
  IN IF ~can_store_record(segment.store, Len(record_buf), config)
       THEN [kind |-> "StoreFull", offset |-> 0, record |-> record,
             segment |-> segment, files |-> fs]
     ELSE IF Underflows(record_offset, segment.base_offset) /\ checks
       THEN [kind |-> "Panic", offset |-> 0, record |-> record,
             segment |-> seg1, files |-> fs1]
     ELSE IF ~written.ok
       THEN [kind |-> "IndexFull", offset |-> 0, record |-> record,
             segment |-> seg1, files |-> fs1]
     ELSE [kind |-> "Ok", offset |-> record_offset, record |-> record,
           segment |-> [seg1 EXCEPT !.index = written.index,
                                    !.next_offset = segment.next_offset + 1],
           files |-> [fs1 EXCEPT ![segment.file].index = written.ifile]]

\* Segment::read: kind is "Ok", "IndexEntryNotFound", "StoreEntryNotFound",
\* "DecodeError" or "Panic"
SegmentRead(segment, fs, offset, checks) ==
  LET pos == offset - segment.base_offset
      f == fs[segment.file]
      found == IndexRead(segment.index, f.index, pos)
      bytes == StoreRead(f.store, found.entry.position)
      decoded == Decode(bytes.value)
  IN IF Underflows(offset, segment.base_offset) /\ checks
       THEN [kind |-> "Panic"]
     ELSE IF found.kind = "Panic" THEN [kind |-> "Panic"]
     ELSE IF found.kind = "None" THEN [kind |-> "IndexEntryNotFound"]
     ELSE IF ~bytes.ok THEN [kind |-> "StoreEntryNotFound"]
     ELSE IF ~decoded.ok THEN [kind |-> "DecodeError"]
     ELSE [kind |-> "Ok", record |-> decoded.record]

\* Segment::close: the files after the index was truncated to its size
SegmentClose(segment, fs) ==
  [fs EXCEPT ![segment.file].index = IndexClose(segment.index, fs[segment.file].index)]

\* Segment::remove: close, then unlink .index and .store by path; panics when
\* the path holds no file
SegmentRemove(segment, fs, ds) ==
  [panic |-> ds[segment.dir] = 0,
   files |-> SegmentClose(segment, fs),
   dirs |-> [ds EXCEPT ![segment.dir] = 0]]

is_maxed(segment, config) ==
  \/ segment.store.size >= config.max_store_bytes
  \/ segment.index.size >= config.max_index_bytes

\* --------------------------------------------------------------------- Log
\* A log value l: [segments, active_segment, files, dirs].  segments is the
\* Vec<Segment>, active_segment the 0-based index kept by the code; files and
\* dirs are the file system under the log directory.

\* Log::new_segment
new_segment(l, offset, config) ==
  LET ds == IF offset \in DOMAIN l.dirs THEN l.dirs ELSE l.dirs @@ (offset :> 0)
      made == SegmentNew(l.files, ds, offset, offset, config)
  IN [segments |-> Append(l.segments, made.segment),
      active_segment |-> Len(l.segments),
      files |-> made.files,
      dirs |-> made.dirs]

\* base_offsets.sort()
RECURSIVE SortedSeq(_)
SortedSeq(S) ==
  IF S = {} THEN <<>>
  ELSE LET m == CHOOSE x \in S : \A y \in S : x <= y
       IN <<m>> \o SortedSeq(S \ {m})

RECURSIVE OpenAll(_, _, _)
OpenAll(l, base_offsets, config) ==
  IF base_offsets = <<>> THEN l
  ELSE OpenAll(new_segment(l, base_offsets[1], config), Tail(base_offsets), config)

\* Log::setup over the directories found under the log directory
setup(l, config) ==
  LET opened == OpenAll(l, SortedSeq(DOMAIN l.dirs), config)
  IN IF opened.segments = <<>>
       THEN new_segment(opened, config.initial_offset, config)
       ELSE opened

\* Log::new on a directory holding dirs and files
LogNew(fs, ds, config) ==
  setup([segments |-> <<>>, active_segment |-> 0, files |-> fs, dirs |-> ds], config)

\* Log::append rejecting a value as long as max_record_size_kb
LogAppend_AtLeast(l, record, config, checks) ==
  IF Len(record.value) >= config.max_record_size_kb
    THEN [kind |-> "RecordTooLarge", offset |-> 0, log |-> l]
  ELSE IF l.active_segment >= Len(l.segments)
    THEN [kind |-> "Panic", offset |-> 0, log |-> l]
  ELSE
    LET a == l.active_segment + 1
        first == SegmentAppend(l.segments[a], l.files, record, config, checks)
        l1 == [l EXCEPT !.segments[a] = first.segment, !.files = first.files]
    IN IF first.kind = "Ok"
         THEN [kind |-> "Ok", offset |-> first.offset,
               log |-> IF is_maxed(first.segment, config)
                         THEN new_segment(l1, first.offset + 1, config)
                         ELSE l1]
       ELSE IF first.kind = "StoreFull"
         THEN LET offset == l.segments[a].next_offset
                  l2 == new_segment(l, offset, config)
                  b == l2.active_segment + 1
                  retry == SegmentAppend(l2.segments[b], l2.files, first.record,
                                         config, checks)
              IN [kind |-> retry.kind, offset |-> retry.offset,
                  log |-> [l2 EXCEPT !.segments[b] = retry.segment,
                                     !.files = retry.files]]
       ELSE [kind |-> first.kind, offset |-> 0, log |-> l1]

\* Log::append: [kind, offset, log]; kind is "Ok", "RecordTooLarge",
\* "StoreFull", "IndexFull" or "Panic"
LogAppend(l, record, config, checks) ==
  IF Len(record.value) > config.max_record_size_kb
    THEN [kind |-> "RecordTooLarge", offset |-> 0, log |-> l]
  ELSE IF l.active_segment >= Len(l.segments)
    THEN [kind |-> "Panic", offset |-> 0, log |-> l]
  ELSE
    LET a == l.active_segment + 1
        first == SegmentAppend(l.segments[a], l.files, record, config, checks)
        l1 == [l EXCEPT !.segments[a] = first.segment, !.files = first.files]
    IN IF first.kind = "Ok"
         THEN [kind |-> "Ok", offset |-> first.offset,
               log |-> IF is_maxed(first.segment, config)
                         THEN new_segment(l1, first.offset + 1, config)
                         ELSE l1]
       ELSE IF first.kind = "StoreFull"
         THEN LET offset == l.segments[a].next_offset
                  l2 == new_segment(l, offset, config)
                  b == l2.active_segment + 1
                  retry == SegmentAppend(l2.segments[b], l2.files, first.record,
                                         config, checks)
              IN [kind |-> retry.kind, offset |-> retry.offset,
                  log |-> [l2 EXCEPT !.segments[b] = retry.segment,
                                     !.files = retry.files]]
       ELSE [kind |-> first.kind, offset |-> 0, log |-> l1]

\* the segment Log::read delegates to (1-based), the first when none holds
\* the offset
RoutedSegment(l, offset) ==
  LET holding == {i \in 1..Len(l.segments) :
                    /\ l.segments[i].base_offset <= offset
                    /\ offset < l.segments[i].next_offset}
  IN IF holding = {} THEN 1 ELSE CHOOSE i \in holding : \A j \in holding : i <= j

\* Log::read: the result of Segment::read, "Panic" on an empty segment list
LogRead(l, offset, checks) ==
  IF l.segments = <<>> THEN [kind |-> "Panic"]
  ELSE SegmentRead(l.segments[RoutedSegment(l, offset)], l.files, offset, checks)

\* Log::close
RECURSIVE CloseAll(_, _)
CloseAll(segs, fs) ==
  IF segs = <<>> THEN fs ELSE CloseAll(Tail(segs), SegmentClose(segs[1], fs))

LogClose(l) == [l EXCEPT !.files = CloseAll(l.segments, l.files)]

\* Log::lowest_offset: [panic, value]
lowest_offset(l) ==
  IF l.segments = <<>> THEN [panic |-> TRUE, value |-> 0]
  ELSE [panic |-> FALSE, value |-> l.segments[1].base_offset]

\* Log::highest_offset: [panic, value]; next_offset - 1 underflows at 0
highest_offset(l, checks) ==
  IF l.segments = <<>> THEN [panic |-> FALSE, value |-> 0]
  ELSE LET n == l.segments[Len(l.segments)].next_offset
       IN [panic |-> Underflows(n, 1) /\ checks, value |-> n - 1]

\* Log::truncate, first loop: remove() every segment with
\* next_offset <= lowest + 1, collecting its index: [panic, files, dirs, idx]
RECURSIVE RemoveLoop(_, _, _, _, _)
RemoveLoop(segs, i, lowest, acc, idx) ==
  IF i >= Len(segs) \/ acc.panic THEN [acc EXCEPT !.idx = idx]
  ELSE IF segs[i + 1].next_offset <= lowest + 1
    THEN RemoveLoop(segs, i + 1, lowest,
                    SegmentRemove(segs[i + 1], acc.files, acc.dirs) @@ [idx |-> <<>>],
                    Append(idx, i))
    ELSE RemoveLoop(segs, i + 1, lowest, acc, idx)

\* Vec::remove(index) on a 0-based index
VecRemove(v, index) == SubSeq(v, 1, index) \o SubSeq(v, index + 2, Len(v))

\* Log::truncate, second loop: segments.remove(index) for each collected
\* index, in order; the segment taken out is dropped, which closes its index.
\* Vec::remove panics on an index out of bounds.
RECURSIVE DropLoop(_, _, _)
DropLoop(segs, fs, idx) ==
  IF idx = <<>> THEN [panic |-> FALSE, segments |-> segs, files |-> fs]
  ELSE IF idx[1] >= Len(segs) THEN [panic |-> TRUE, segments |-> segs, files |-> fs]
  ELSE DropLoop(VecRemove(segs, idx[1]), SegmentClose(segs[idx[1] + 1], fs), Tail(idx))

\* Log::truncate: [panic, log]
LogTruncate(l, lowest) ==
  LET removed == RemoveLoop(l.segments, 0, lowest,
                            [panic |-> FALSE, files |-> l.files, dirs |-> l.dirs,
                             idx |-> <<>>], <<>>)
      dropped == DropLoop(l.segments, removed.files, removed.idx)
  IN IF removed.panic
       THEN [panic |-> TRUE,
             log |-> [l EXCEPT !.files = removed.files, !.dirs = removed.dirs]]
       ELSE [panic |-> dropped.panic,
             log |-> [l EXCEPT !.segments = dropped.segments,
                               !.files = dropped.files,
                               !.dirs = removed.dirs]]

\* Log::remove: close, then remove_dir of the log directory, which fails on
\* a directory that holds entries: [kind, log]
LogRemove(l) ==
  LET closed == LogClose(l)
  IN IF DOMAIN closed.dirs # {}
       THEN [kind |-> "IOError", log |-> closed]
       ELSE [kind |-> "Ok", log |-> closed]

\* Log::reset: remove()?, then setup(), whose read_dir fails on the
\* directory remove() took away: [kind, log]
LogReset(l, config) ==
  LET removed == LogRemove(l)
  IN IF removed.kind # "Ok"
       THEN removed
       ELSE [kind |-> "IOError", log |-> removed.log]

\* ------------------------------------------------------------- the program
VARIABLES
  segments,         \* Log.segments
  active_segment,   \* Log.active_segment
  files,            \* the (.store, .index) file pairs ever created
  dirs,             \* segment directories under the log directory
  config,           \* Log.config
  overflow_checks,  \* TRUE: arithmetic overflow panics (debug build)
  status,           \* "open", "closed" (after Log::close) or "panicked"
  history,          \* the successful appends, in order: [offset, record, log]
                    \* (log: the value of reopens when it was made)
  last,             \* the last call, how it ended, the offset an append returned
                    \* (of a lone Store: the position or length the call took)
  atClose,          \* what the log answered when Log::close was called
  calls,            \* appends (successful or not) made so far
  reopens,          \* logs constructed after the first
  truncated,        \* TRUE once Log::truncate was called
  index,            \* an Index driven on its own (IdxSpec)
  ifile,            \* the file of that Index
  store,            \* a Store driven on its own (StoSpec)
  sfile             \* the bytes of the file of that Store

vars == <<segments, active_segment, files, dirs, config, overflow_checks, status,
          history, last, atClose, calls, reopens, truncated, index, ifile, store, sfile>>

\* a specification that drives the Log or a Segment leaves the lone Index alone
NoIndex ==
  /\ index = [size |-> 0, mmap_len |-> 0]
  /\ ifile = [len |-> 0, entries |-> <<>>]

\* ... and the lone Store
NoStore ==
  /\ store = [size |-> 0]
  /\ sfile = <<>>

\* the log value held in the variables
TheLog == [segments |-> segments, active_segment |-> active_segment,
           files |-> files, dirs |-> dirs]

\* the offsets read
Offsets == 0 .. (MaxAppends + 2)

\* the arguments of truncate: the lowest offset, the one after it, and one
\* at or above every offset a log of the model assigns
Lowests == {0, 1, MaxAppends + 2}

NoSnapshot == [lowest |-> 0, highest |-> 0, readable |-> <<>>]

\* offset -> what Log::read answers for it
ReadAll(l, checks) == [o \in Offsets |-> LogRead(l, o, checks)]

Install(l) ==
  /\ segments' = l.segments
  /\ active_segment' = l.active_segment
  /\ files' = l.files
  /\ dirs' = l.dirs

Init ==
  /\ config \in Configs
  /\ overflow_checks \in BOOLEAN
  /\ LET l == LogNew(<<>>, <<>>, config)
     IN /\ segments = l.segments
        /\ active_segment = l.active_segment
        /\ files = l.files
        /\ dirs = l.dirs
  /\ status = "open"
  /\ history = <<>>
  /\ last = [op |-> "new", kind |-> "Ok", offset |-> 0]
  /\ atClose = NoSnapshot
  /\ calls = 0
  /\ reopens = 0
  /\ truncated = FALSE
  /\ NoIndex
  /\ NoStore

\* A segment opened on an index file whose last entry holds a wrapped
\* relative offset assigns offsets from 2^32 on.  The model follows a log up
\* to the opening of such a segment and through the calls that do not write
\* to it: Log::append writes to the active segment and, when that one answers
\* StoreFull, to the segment it opens for the retry (l1 is the log after).
WithinOffsets(l, record, l1) ==
  l.active_segment < Len(l.segments) =>
    LET active == l.segments[l.active_segment + 1]
        retried == l1.segments[Len(l1.segments)]
    IN /\ active.next_offset < TwoTo32
       /\ SegmentAppend(active, l.files, record, config, overflow_checks).kind
            = "StoreFull" =>
            IF retried.next_offset < TwoTo32
              THEN TRUE
              ELSE l1.files[retried.file].store = l.files[retried.file].store

\* log.append(record)
AppendCall(record) ==
  /\ status = "open"
  /\ calls < MaxAppends
  /\ LET r == LogAppend(TheLog, record, config, overflow_checks)
     IN /\ WithinOffsets(TheLog, record, r.log)
        /\ Install(r.log)
        /\ status' = IF r.kind = "Panic" THEN "panicked" ELSE "open"
        /\ history' = IF r.kind = "Ok"
                        THEN Append(history, [offset |-> r.offset, record |-> record,
                                              log |-> reopens])
                        ELSE history
        /\ last' = [op |-> "append", kind |-> r.kind, offset |-> r.offset]
  /\ calls' = calls + 1
  /\ UNCHANGED <<config, overflow_checks, atClose, reopens, truncated, index, ifile, store, sfile>>

\* log.read(offset), on a log that is open or was closed by Log::close: the
\* Log and its segments keep no record of the close, and a read touches the
\* mapping below size only, which the truncated file still backs
ReadCall(offset) ==
  /\ status \in {"open", "closed"}
  /\ LET r == LogRead(TheLog, offset, overflow_checks)
     IN /\ status' = IF r.kind = "Panic" THEN "panicked" ELSE status
        /\ last' = [op |-> "read", kind |-> r.kind, offset |-> 0]
  /\ UNCHANGED <<segments, active_segment, files, dirs, config, overflow_checks,
                 history, atClose, calls, reopens, truncated, index, ifile, store, sfile>>

\* log.truncate(lowest)
TruncateCall(lowest) ==
  /\ status = "open"
  /\ LET r == LogTruncate(TheLog, lowest)
     IN /\ Install(r.log)
        /\ status' = IF r.panic THEN "panicked" ELSE "open"
        /\ last' = [op |-> "truncate", kind |-> IF r.panic THEN "Panic" ELSE "Ok", offset |-> 0]
  /\ truncated' = TRUE
  /\ UNCHANGED <<config, overflow_checks, history, atClose, calls, reopens, index, ifile, store, sfile>>

\* log.close(); a log is closed while a construction may still follow
CloseCall ==
  /\ status = "open"
  /\ reopens < MaxReopens
  /\ Install(LogClose(TheLog))
  /\ status' = "closed"
  /\ atClose' = [lowest |-> lowest_offset(TheLog),
                 highest |-> highest_offset(TheLog, overflow_checks),
                 readable |-> ReadAll(TheLog, overflow_checks)]
  /\ last' = [op |-> "close", kind |-> "Ok", offset |-> 0]
  /\ UNCHANGED <<config, overflow_checks, history, calls, reopens, truncated, index, ifile, store, sfile>>

\* log.remove()
RemoveCall ==
  /\ status = "open"
  /\ reopens < MaxReopens
  /\ LET r == LogRemove(TheLog)
     IN /\ Install(r.log)
        /\ last' = [op |-> "remove", kind |-> r.kind, offset |-> 0]
  /\ status' = "closed"
  /\ atClose' = [lowest |-> lowest_offset(TheLog),
                 highest |-> highest_offset(TheLog, overflow_checks),
                 readable |-> ReadAll(TheLog, overflow_checks)]
  /\ UNCHANGED <<config, overflow_checks, history, calls, reopens, truncated, index, ifile, store, sfile>>

\* log.reset()
ResetCall ==
  /\ status = "open"
  /\ reopens < MaxReopens
  /\ LET r == LogReset(TheLog, config)
     IN /\ Install(r.log)
        /\ last' = [op |-> "reset", kind |-> r.kind, offset |-> 0]
  /\ status' = "closed"
  /\ atClose' = [lowest |-> lowest_offset(TheLog),
                 highest |-> highest_offset(TheLog, overflow_checks),
                 readable |-> ReadAll(TheLog, overflow_checks)]
  /\ UNCHANGED <<config, overflow_checks, history, calls, reopens, truncated, index, ifile, store, sfile>>

\* an index file whose last entry holds a wrapped relative offset: a segment
\* opened on it would start at an offset near 2^32, beyond the offsets explored
BeyondBound ==
  \E d \in DOMAIN dirs :
    /\ dirs[d] # 0
    /\ \E k \in 1..Len(files[dirs[d]].index.entries) :
         files[dirs[d]].index.entries[k].record_offset < 0

\* Log::new(dir, Some(config)) on the directory of a closed log.  A log that
\* was truncated is followed to its close and not beyond.
NewCall ==
  /\ status = "closed"
  /\ ~truncated
  /\ reopens < MaxReopens
  /\ ~BeyondBound
  /\ Install(LogNew(files, dirs, config))
  /\ status' = "open"
  /\ reopens' = reopens + 1
  /\ last' = [op |-> "new", kind |-> "Ok", offset |-> 0]
  /\ UNCHANGED <<config, overflow_checks, history, atClose, calls, truncated, index, ifile, store, sfile>>

Next ==
  \/ \E record \in Records : AppendCall(record)
  \/ \E offset \in Offsets : ReadCall(offset)
  \/ \E lowest \in Lowests : TruncateCall(lowest)
  \/ CloseCall
  \/ RemoveCall
  \/ ResetCall
  \/ NewCall

Spec == Init /\ [][Next]_vars

\* ------------------------------------------------- a Segment on its own
\* the configurations a lone Segment or Index is driven under
SmallConfigs ==
  { [max_index_bytes |-> 24, max_store_bytes |-> 100, initial_offset |-> 0, max_record_size_kb |-> 3],
    [max_index_bytes |-> 30, max_store_bytes |-> 100, initial_offset |-> 0, max_record_size_kb |-> 3],
    [max_index_bytes |-> 36, max_store_bytes |-> 30, initial_offset |-> 0, max_record_size_kb |-> 3] }

\* the base offsets a lone Segment is opened at
Bases == {0, 2}

\* the segment under test
TheSegment == segments[1]

InstallSegment(made) ==
  /\ segments' = <<made.segment>>
  /\ files' = made.files
  /\ dirs' = made.dirs

\* Segment::new(dir, base, config) on a new, empty directory
SegInit ==
  /\ config \in SmallConfigs
  /\ overflow_checks \in BOOLEAN
  /\ \E base \in Bases :
       LET made == SegmentNew(<<>>, (base :> 0), base, base, config)
       IN /\ segments = <<made.segment>>
          /\ files = made.files
          /\ dirs = made.dirs
  /\ active_segment = 0
  /\ status = "open"
  /\ history = <<>>
  /\ last = [op |-> "new", kind |-> "Ok", offset |-> 0]
  /\ atClose = NoSnapshot
  /\ calls = 0
  /\ reopens = 0
  /\ truncated = FALSE
  /\ NoIndex
  /\ NoStore

\* segment.append(record)
SegAppendCall(record) ==
  /\ status = "open"
  /\ calls < MaxAppends
  /\ TheSegment.next_offset < TwoTo32
  /\ LET r == SegmentAppend(TheSegment, files, record, config, overflow_checks)
     IN /\ segments' = <<r.segment>>
        /\ files' = r.files
        /\ status' = IF r.kind = "Panic" THEN "panicked" ELSE "open"
        /\ history' = IF r.kind = "Ok"
                        THEN Append(history, [offset |-> r.offset, record |-> record,
                                              log |-> reopens])
                        ELSE history
        /\ last' = [op |-> "append", kind |-> r.kind, offset |-> r.offset]
  /\ calls' = calls + 1
  /\ UNCHANGED <<active_segment, dirs, config, overflow_checks, atClose, reopens,
                 truncated, index, ifile, store, sfile>>

\* segment.read(offset)
SegReadCall(offset) ==
  /\ status = "open"
  /\ LET r == SegmentRead(TheSegment, files, offset, overflow_checks)
     IN /\ status' = IF r.kind = "Panic" THEN "panicked" ELSE "open"
        /\ last' = [op |-> "read", kind |-> r.kind, offset |-> 0]
  /\ UNCHANGED <<segments, active_segment, files, dirs, config, overflow_checks,
                 history, atClose, calls, reopens, truncated, index, ifile, store, sfile>>

\* segment.close()
SegCloseCall ==
  /\ status = "open"
  /\ files' = SegmentClose(TheSegment, files)
  /\ status' = "closed"
  /\ last' = [op |-> "close", kind |-> "Ok", offset |-> 0]
  /\ UNCHANGED <<segments, active_segment, dirs, config, overflow_checks, history,
                 atClose, calls, reopens, truncated, index, ifile, store, sfile>>

\* Segment::new on the directory of the closed segment, at the same base
SegNewCall ==
  /\ status = "closed"
  /\ reopens < MaxReopens
  /\ ~BeyondBound
  /\ InstallSegment(SegmentNew(files, dirs, TheSegment.dir, TheSegment.base_offset,
                               config))
  /\ status' = "open"
  /\ reopens' = reopens + 1
  /\ last' = [op |-> "new", kind |-> "Ok", offset |-> 0]
  /\ UNCHANGED <<active_segment, config, overflow_checks, history, atClose, calls,
                 truncated, index, ifile, store, sfile>>

SegNext ==
  \/ \E record \in Records : SegAppendCall(record)
  \/ \E offset \in Offsets : SegReadCall(offset)
  \/ SegCloseCall
  \/ SegNewCall

SegSpec == SegInit /\ [][SegNext]_vars

\* --------------------------------------------------- an Index on its own
\* the entries handed to Index::write
RelativeOffsets == {0, 1, 7}
Positions == {10, 20}

\* Index::new(path, config) on a new file
IdxInit ==
  /\ config \in SmallConfigs
  /\ LET opened == IndexNew([len |-> 0, entries |-> <<>>], config)
     IN /\ index = opened.index
        /\ ifile = opened.ifile
  /\ overflow_checks = TRUE
  /\ segments = <<>>
  /\ active_segment = 0
  /\ files = <<>>
  /\ dirs = <<>>
  /\ status = "open"
  /\ history = <<>>
  /\ last = [op |-> "new", kind |-> "Ok", offset |-> 0]
  /\ atClose = NoSnapshot
  /\ calls = 0
  /\ reopens = 0
  /\ truncated = FALSE
  /\ NoStore

logVars == <<segments, active_segment, files, dirs, config, overflow_checks, atClose,
             truncated, store, sfile>>

\* index.write(record_offset, position); history keeps the entries written:
\* [record_offset, position, log]
IdxWriteCall(record_offset, position) ==
  /\ status = "open"
  /\ calls < MaxAppends
  /\ LET w == IndexWrite(index, ifile, record_offset, position)
     IN /\ index' = w.index
        /\ ifile' = w.ifile
        /\ history' = IF w.ok
                        THEN Append(history, [record_offset |-> record_offset,
                                              position |-> position,
                                              log |-> reopens])
                        ELSE history
        /\ last' = [op |-> "write", kind |-> IF w.ok THEN "Ok" ELSE "IndexFull",
                    offset |-> 0]
  /\ calls' = calls + 1
  /\ UNCHANGED <<logVars, status, reopens>>

\* index.read(index_position)
IdxReadCall(index_position) ==
  /\ status = "open"
  /\ LET r == IndexRead(index, ifile, index_position)
     IN /\ status' = IF r.kind = "Panic" THEN "panicked" ELSE "open"
        /\ last' = [op |-> "read", kind |-> r.kind, offset |-> 0]
  /\ UNCHANGED <<logVars, index, ifile, history, calls, reopens>>

\* index.close(), on an index that is open or was closed already
IdxCloseCall ==
  /\ status \in {"open", "closed"}
  /\ ifile' = IndexClose(index, ifile)
  /\ status' = "closed"
  /\ last' = [op |-> "close", kind |-> "Ok", offset |-> 0]
  /\ UNCHANGED <<logVars, index, history, calls, reopens>>

\* impl Drop for Index, on an index closed before (as Segment::close leaves
\* it): close() once more
IdxDropCall ==
  /\ status = "closed"
  /\ ifile' = IndexClose(index, ifile)
  /\ status' = "dropped"
  /\ last' = [op |-> "drop", kind |-> "Ok", offset |-> 0]
  /\ UNCHANGED <<logVars, index, history, calls, reopens>>

\* Index::new on the file of the closed index
IdxNewCall ==
  /\ status \in {"closed", "dropped"}
  /\ reopens < MaxReopens
  /\ LET opened == IndexNew(ifile, config)
     IN /\ index' = opened.index
        /\ ifile' = opened.ifile
  /\ status' = "open"
  /\ reopens' = reopens + 1
  /\ last' = [op |-> "new", kind |-> "Ok", offset |-> 0]
  /\ UNCHANGED <<logVars, history, calls>>

IdxNext ==
  \/ \E record_offset \in RelativeOffsets, position \in Positions :
       IdxWriteCall(record_offset, position)
  \/ \E index_position \in Offsets : IdxReadCall(index_position)
  \/ IdxCloseCall
  \/ IdxDropCall
  \/ IdxNewCall

IdxSpec == IdxInit /\ [][IdxNext]_vars

\* ---------------------------------------------------- a Store on its own
\* the byte vectors handed to Store::append
Payloads == Values \cup {<<>>}

\* the lengths handed to Store::can_store_record
RecordLens == 0..4

\* the positions handed to Store::read: the start of the first frame, of the
\* second, and the bytes between them
StorePositions == 0 .. (LEN_WIDTH + 5)

\* the configurations a lone Store is driven under (max_store_bytes 100, 30)
StoreConfigs == {c \in SmallConfigs : c.max_index_bytes # 30}

\* Store::new(path, config) on a new file
StoInit ==
  /\ config \in StoreConfigs
  /\ store = StoreNew(<<>>)
  /\ sfile = <<>>
  /\ overflow_checks = TRUE
  /\ segments = <<>>
  /\ active_segment = 0
  /\ files = <<>>
  /\ dirs = <<>>
  /\ status = "open"
  /\ history = <<>>
  /\ last = [op |-> "new", kind |-> "Ok", offset |-> 0]
  /\ atClose = NoSnapshot
  /\ calls = 0
  /\ reopens = 0
  /\ truncated = FALSE
  /\ NoIndex

otherVars == <<segments, active_segment, files, dirs, config, overflow_checks, atClose,
               truncated, index, ifile>>

\* store.append(value); history keeps the frames written:
\* [value, position, total_written, log]
StoAppendCall(value) ==
  /\ status = "open"
  /\ calls < MaxAppends
  /\ LET a == StoreAppend(store, sfile, value)
     IN /\ store' = a.store
        /\ sfile' = a.bytes
        /\ history' = Append(history, [value |-> value, position |-> a.position,
                                       total_written |-> a.total_written,
                                       log |-> reopens])
        /\ last' = [op |-> "append", kind |-> "Ok", offset |-> a.position]
  /\ calls' = calls + 1
  /\ UNCHANGED <<otherVars, status, reopens>>

\* store.read(position).  A length prefix of 2^24 or more (read out of the
\* middle of a frame) asks for a buffer the allocator may refuse: the call
\* then aborts, or fails on the short read.
StoReadCall(position) ==
  /\ status = "open"
  /\ LET r == StoreRead(sfile, position)
         huge == /\ position + LEN_WIDTH <= Len(sfile)
                 /\ ReadLen(SubSeq(sfile, position + 1, position + LEN_WIDTH)) < 0
     IN \E aborts \in IF huge THEN BOOLEAN ELSE {FALSE} :
          /\ status' = IF aborts THEN "panicked" ELSE "open"
          /\ last' = [op |-> "read",
                      kind |-> IF aborts THEN "Panic"
                               ELSE IF r.ok THEN "Ok" ELSE "IOError",
                      offset |-> position]
  /\ UNCHANGED <<otherVars, store, sfile, history, calls, reopens>>

\* store.can_store_record(record_len)
StoCanStoreCall(record_len) ==
  /\ status = "open"
  /\ last' = [op |-> "can_store_record",
              kind |-> IF can_store_record(store, record_len, config)
                         THEN "true" ELSE "false",
              offset |-> record_len]
  /\ UNCHANGED <<otherVars, store, sfile, status, history, calls, reopens>>

\* Store::new on the file of the store
StoNewCall ==
  /\ status = "open"
  /\ reopens < MaxReopens
  /\ store' = StoreNew(sfile)
  /\ reopens' = reopens + 1
  /\ last' = [op |-> "new", kind |-> "Ok", offset |-> 0]
  /\ UNCHANGED <<otherVars, sfile, status, history, calls>>

StoNext ==
  \/ \E value \in Payloads : StoAppendCall(value)
  \/ \E position \in StorePositions : StoReadCall(position)
  \/ \E record_len \in RecordLens : StoCanStoreCall(record_len)
  \/ StoNewCall

StoSpec == StoInit /\ [][StoNext]_vars

\* ------------------------------------------------------------------ claims
\* what log.read(offset) answers in the current state
ReadNow(offset) == LogRead(TheLog, offset, overflow_checks)

\* the appends made on the log now open
OnThisLog == {i \in 1..Len(history) : history[i].log = reopens}

\* C1: a record appended to a log is read back, at the offset append
\* returned, with the value that was appended, as long as the log is open
\* and was not truncated.
C1_ReadAfterAppend ==
  (status = "open" /\ ~truncated) =>
    \A i \in OnThisLog :
      /\ ReadNow(history[i].offset).kind = "Ok"
      /\ ReadNow(history[i].offset).record.value = history[i].record.value

\* every append call so far succeeded and truncate was never called
OnlyAppends == calls = Len(history) /\ ~truncated

\* C2: on a log created empty at initial_offset, the successful appends
\* return initial_offset, initial_offset + 1, ... in order, whatever appends
\* failed in between.
C2_DenseOffsets ==
  (reopens = 0 /\ ~truncated) =>
    \A i \in 1..Len(history) : history[i].offset = config.initial_offset + i - 1

\* C3: a log constructed on the directory of a closed log that only saw
\* successful appends answers lowest_offset, highest_offset and every read
\* that succeeded before the close as the closed log did.
C3_ReopenRoundTrip ==
  (status = "open" /\ last.op = "new" /\ reopens > 0 /\ OnlyAppends) =>
    /\ lowest_offset(TheLog) = atClose.lowest
    /\ highest_offset(TheLog, overflow_checks) = atClose.highest
    /\ \A o \in Offsets :
         atClose.readable[o].kind = "Ok" => ReadNow(o) = atClose.readable[o]

\* C4: the first successful append on a log constructed over a closed log
\* holding offsets up to H returns H + 1.
C4_MonotonicAcrossRestart ==
  (/\ last.op = "append" /\ last.kind = "Ok"
   /\ reopens > 0 /\ ~truncated
   /\ Cardinality(OnThisLog) = 1
   /\ Len(history) > 1)
    => last.offset = atClose.highest.value + 1

\* C5: the record read back at the offset append returned carries that
\* offset, whatever offset the caller put in the record.
C5_StoredOffset ==
  (status = "open" /\ reopens = 0 /\ ~truncated) =>
    \A i \in 1..Len(history) :
      ReadNow(history[i].offset).kind = "Ok" =>
        ReadNow(history[i].offset).record.offset = <<history[i].offset>>

\* v is w with some elements left out, the others in their order
RECURSIVE IsSubSeq(_, _)
IsSubSeq(v, w) ==
  IF v = <<>> THEN TRUE
  ELSE IF w = <<>> THEN FALSE
  ELSE IF v[1] = w[1] THEN IsSubSeq(Tail(v), Tail(w))
  ELSE IsSubSeq(v, Tail(w))

\* C6: on a log that only saw successful appends, truncate(L) returns,
\* leaves no segment with next_offset <= L + 1, keeps the remaining segments
\* in their order, and every offset above L that was readable is still read
\* with the same answer.
C6_Truncate ==
  [][\A L \in Offsets :
       (TruncateCall(L) /\ OnlyAppends /\ reopens = 0) =>
         /\ status' = "open"
         /\ \A i \in 1..Len(segments') : segments'[i].next_offset > L + 1
         /\ IsSubSeq(segments', segments)
         /\ \A o \in Offsets :
              (o > L /\ ReadNow(o).kind = "Ok") => ReadNow(o)' = ReadNow(o)]_vars

\* the active segment refuses the record with StoreFull
Refused(record) ==
  /\ Len(record.value) <= config.max_record_size_kb
  /\ active_segment < Len(segments)
  /\ SegmentAppend(segments[active_segment + 1], files, record, config,
                   overflow_checks).kind = "StoreFull"

\* the record, once given an offset, fits in an empty store
FitsEmpty(record) ==
  can_store_record(StoreNew(<<>>), Len(Encode([record EXCEPT !.offset = <<0>>])), config)

\* C7: an append the active segment refuses with StoreFull, of a record that
\* fits in an empty segment, adds one segment based at the old active
\* segment's next_offset, makes it active, stores the record there and
\* returns that offset.
C7_Reactive ==
  [][\A record \in Records :
       (AppendCall(record) /\ Refused(record) /\ FitsEmpty(record)) =>
         /\ Len(segments') = Len(segments) + 1
         /\ SubSeq(segments', 1, Len(segments)) = segments
         /\ active_segment' = Len(segments)
         /\ segments'[Len(segments')].base_offset = segments[active_segment + 1].next_offset
         /\ last'.kind = "Ok"
         /\ last'.offset = segments[active_segment + 1].next_offset
         /\ LET got == SegmentRead(segments'[Len(segments')], files', last'.offset,
                                   overflow_checks)
            IN got.kind = "Ok" /\ got.record.value = record.value]_vars

\* the record Segment::append encodes: the offset is filled in when unset
Assigned(record, next_offset) ==
  IF record.offset = <<>> THEN [record EXCEPT !.offset = <<next_offset>>] ELSE record

\* C8: a Segment::append refused because the store cannot take the encoded
\* record returns StoreFull with the record and changes neither the segment
\* (store size, index size, next_offset) nor its files (store bytes, index
\* entries).
C8_StoreFullNoChange ==
  [][\A record \in Records :
       LET carried == Assigned(record, TheSegment.next_offset)
       IN (/\ SegAppendCall(record)
           /\ ~can_store_record(TheSegment.store, Len(Encode(carried)), config)) =>
            /\ last'.kind = "StoreFull"
            /\ SegmentAppend(TheSegment, files, record, config,
                             overflow_checks).record = carried
            /\ segments' = segments
            /\ files' = files]_vars

\* C8 witness: a segment holding records has just refused an append
C8_Witness ==
  /\ last.op = "append" /\ last.kind = "StoreFull"
  /\ TheSegment.store.size > 0
  /\ TheSegment.index.size > 0

\* the index of the segment under test cannot take one more entry
IndexAtCapacity ==
  TheSegment.index.size + INDEX_ENTRY_LENGTH > config.max_index_bytes

\* the store of the segment under test is large: it takes MaxAppends records
LargeStore == config.max_store_bytes >= 100

\* C9: Index::write succeeds exactly when size + 12 <= max_index_bytes, and
\* a refused write changes nothing; so a segment opened empty at base B with
\* a large store takes floor(max_index_bytes / 12) appends, at B, B + 1, ...,
\* the next append fails with IndexFull, and the segment then is_maxed().
C9_IndexCapacity ==
  /\ LET f == files[TheSegment.file].index
         w == IndexWrite(TheSegment.index, f, 0, 0)
     IN /\ w.ok <=> ~IndexAtCapacity
        /\ ~w.ok => (w.index = TheSegment.index /\ w.ifile = f)
  /\ (reopens = 0 /\ LargeStore) =>
       /\ Len(history) <= config.max_index_bytes \div INDEX_ENTRY_LENGTH
       /\ \A i \in 1..Len(history) :
            history[i].offset = TheSegment.base_offset + i - 1
       /\ (last.op = "append" /\ last.kind # "Ok") =>
            /\ last.kind = "IndexFull"
            /\ Len(history) = config.max_index_bytes \div INDEX_ENTRY_LENGTH
            /\ is_maxed(TheSegment, config)

\* C10: after any writes, a close and a reopen of the same file, and any
\* further writes, size is 12 times the number of entries written, read(k)
\* answers the k-th entry written (counting from 0), and read(k) answers None
\* for k at or beyond the number of entries written.
C10_IndexRoundTrip ==
  status = "open" =>
    /\ index.size = INDEX_ENTRY_LENGTH * Len(history)
    /\ \A k \in 0..(Len(history) - 1) :
         LET r == IndexRead(index, ifile, k)
         IN /\ r.kind = "Some"
            /\ r.entry.record_offset = history[k + 1].record_offset
            /\ r.entry.position = history[k + 1].position
    /\ \A k \in Offsets :
         k >= Len(history) => IndexRead(index, ifile, k).kind = "None"

\* C10 witness: entries were written before and after a reopen
C10_Witness ==
  /\ status = "open" /\ reopens > 0
  /\ \E i, j \in 1..Len(history) : history[i].log = 0 /\ history[j].log > 0

\* no segment of the log contains the offset
NotHeld(offset) ==
  \A i \in 1..Len(segments) :
    ~(segments[i].base_offset <= offset /\ offset < segments[i].next_offset)

\* C11: Log::read of an offset that no segment contains (on a log without
\* records, above highest_offset or below lowest_offset) answers
\* IndexEntryNotFound: it returns no record and does not abort.
C11_OutOfRange ==
  (status = "open" /\ reopens = 0 /\ ~truncated) =>
    \A o \in Offsets : NotHeld(o) => ReadNow(o).kind = "IndexEntryNotFound"

\* the length of the frames of the first n appends of a lone Store
RECURSIVE FrameSum(_)
FrameSum(n) ==
  IF n = 0 THEN 0 ELSE FrameSum(n - 1) + LEN_WIDTH + Len(history[n].value)

\* C12: every Store::append returned (8 + len(payload), position) with
\* position the size before the call, the sum of the frames appended before
\* it; size is the sum of all frames; and Store::read at the position of any
\* earlier append answers that append's payload, whatever was appended since.
C12_StoreFraming ==
  /\ store.size = FrameSum(Len(history))
  /\ \A i \in 1..Len(history) :
       /\ history[i].total_written = LEN_WIDTH + Len(history[i].value)
       /\ history[i].position = FrameSum(i - 1)
       /\ StoreRead(sfile, history[i].position) =
            [ok |-> TRUE, value |-> history[i].value]

\* C12 witness: the first of several frames was just read back
C12_Witness ==
  /\ Len(history) >= 3
  /\ last.op = "read" /\ last.kind = "Ok"
  /\ last.offset = history[1].position

\* C13: can_store_record(k) answers true exactly when
\* size + k + 8 < max_store_bytes, so a frame that would end exactly at
\* max_store_bytes is refused; the call changes neither the store nor its file.
C13_CanStore ==
  [][\A k \in RecordLens :
       StoCanStoreCall(k) =>
         /\ last'.kind = "true" <=> store.size + k + LEN_WIDTH < config.max_store_bytes
         /\ store.size + k + LEN_WIDTH = config.max_store_bytes => last'.kind = "false"
         /\ store' = store
         /\ sfile' = sfile]_vars

\* C13 witness: a frame that would fill a store holding frames exactly to
\* max_store_bytes was refused
C13_Witness ==
  /\ last.op = "can_store_record" /\ last.kind = "false"
  /\ store.size > 0
  /\ store.size + last.offset + LEN_WIDTH = config.max_store_bytes

\* C14: Log::append answers RecordTooLarge exactly when the value holds more
\* than max_record_size_kb bytes; the rejected call assigns no offset, adds no
\* segment and leaves every segment, its store and its index as they were.
C14_RecordTooLarge ==
  [][\A record \in Records :
       (last'.op = "append" /\ AppendCall(record)) =>
         /\ last'.kind = "RecordTooLarge"
              <=> Len(record.value) > config.max_record_size_kb
         /\ Len(record.value) > config.max_record_size_kb =>
              /\ segments' = segments
              /\ active_segment' = active_segment
              /\ files' = files
              /\ dirs' = dirs
              /\ history' = history]_vars

\* C14 witness: a log holding records has just rejected a record as too large
C14_Witness ==
  /\ last.op = "append" /\ last.kind = "RecordTooLarge"
  /\ Len(history) > 0

\* C15: remove() succeeds and leaves no segment directory; reset() succeeds
\* and leaves one empty segment at initial_offset, with none of the offsets
\* appended before readable.
C15_RemoveReset ==
  [][/\ RemoveCall => (last'.kind = "Ok" /\ DOMAIN dirs' = {})
     /\ ResetCall =>
          /\ last'.kind = "Ok"
          /\ Len(segments') = 1
          /\ segments'[1].base_offset = config.initial_offset
          /\ segments'[1].next_offset = config.initial_offset
          /\ segments'[1].store.size = 0
          /\ segments'[1].index.size = 0
          /\ \A i \in 1..Len(history) :
               LogRead(TheLog', history[i].offset, overflow_checks).kind # "Ok"]_vars

\* C16: Index::close leaves the file 12 bytes long per entry written, holding
\* those entries, and the in-memory size as it was; a second close, explicit
\* or by drop, changes neither the file nor the size.
C16_CloseIdempotent ==
  [][/\ IdxCloseCall =>
          /\ ifile'.len = INDEX_ENTRY_LENGTH * Len(history)
          /\ ifile'.entries = [k \in 1..Len(history) |->
                                 [record_offset |-> history[k].record_offset,
                                  position |-> history[k].position]]
          /\ index' = index
     /\ ((IdxCloseCall /\ status = "closed") \/ IdxDropCall) =>
          /\ ifile' = ifile
          /\ index' = index]_vars

\* C16 witness: an index holding entries was closed and then dropped
C16_Witness ==
  /\ status = "dropped"
  /\ last.op = "drop"
  /\ index.size > 0

\* C17: while the log holds a record, lowest_offset() is the base_offset of
\* the first segment and highest_offset() is the last segment's
\* next_offset - 1, the offset the most recent successful append returned.
C17_LowestHighest ==
  (status = "open" /\ Len(history) > 0 /\ ~truncated) =>
    /\ lowest_offset(TheLog) = [panic |-> FALSE, value |-> segments[1].base_offset]
    /\ highest_offset(TheLog, overflow_checks) =
         [panic |-> FALSE, value |-> segments[Len(segments)].next_offset - 1]
    /\ highest_offset(TheLog, overflow_checks).value = history[Len(history)].offset

\* C18: a segment, whether created empty, appended to or constructed over
\* existing files, has next_offset >= base_offset and next_offset -
\* base_offset entries in its index.
C18_SegmentOffsets ==
  status = "open" =>
    /\ TheSegment.next_offset >= TheSegment.base_offset
    /\ TheSegment.next_offset - TheSegment.base_offset =
         TheSegment.index.size \div INDEX_ENTRY_LENGTH

\* consecutive segments of the log meet: each starts where the one before ends
Contiguous ==
  \A i \in 1..(Len(segments) - 1) :
    /\ segments[i].base_offset < segments[i + 1].base_offset
    /\ segments[i + 1].base_offset = segments[i].next_offset

\* C19: after construction, appends that succeeded or failed, and rollovers,
\* the segments have strictly increasing base_offsets and each starts at the
\* next_offset of the one before.
C19_SegmentList ==
  (status = "open" /\ reopens = 0 /\ ~truncated) => Contiguous

\* C20: after construction, every rollover and every truncate, active_segment
\* is the index of the last element of the segment list, the segment with
\* the highest base_offset.
C20_ActiveIsLast ==
  (status = "open" /\ segments # <<>>) =>
    /\ active_segment = Len(segments) - 1
    /\ \A i \in 1..Len(segments) :
         segments[i].base_offset <= segments[active_segment + 1].base_offset

\* C21: the index of a segment driven through the Segment API, also after a
\* reopen at a non-zero base_offset, has a size that is a multiple of 12 and
\* holds at ordinal k the relative offset k (no wrapped difference).
C21_IndexLayout ==
  LET f == files[TheSegment.file].index
      n == TheSegment.index.size \div INDEX_ENTRY_LENGTH
  IN /\ TheSegment.index.size % INDEX_ENTRY_LENGTH = 0
     /\ \A k \in 0..(n - 1) :
          LET e == IndexRead(TheSegment.index, f, k)
          IN e.kind = "Some" => e.entry.record_offset = k

\* the files of the segment were unlinked by Segment::remove
Removed(segment) == dirs[segment.dir] # segment.file

\* C22: once a segment was closed (Log::close) or removed (Log::truncate), no
\* read is carried out on it: the log routes no read to such a segment.
C22_LifeCycle ==
  [][\A o \in Offsets :
       /\ (ReadCall(o) /\ status = "closed") => last'.kind # "Ok"
       /\ (ReadCall(o) /\ segments # <<>>
             /\ Removed(segments[RoutedSegment(TheLog, o)])) => last'.kind # "Ok"]_vars

\* the first Segment::append attempt of Log::append, on the active segment
FirstAttempt(record) ==
  SegmentAppend(segments[active_segment + 1], files, record, config, overflow_checks)

\* C23: when Log::append returns Ok(O) from its first attempt on the active
\* segment and leaves that segment is_maxed(), the log has one more segment,
\* the last and active one, empty and based at O + 1; when the segment is not
\* maxed the list and the active segment are unchanged.
C23_Proactive ==
  [][\A record \in Records :
       (/\ AppendCall(record)
        /\ Len(record.value) <= config.max_record_size_kb
        /\ active_segment < Len(segments)
        /\ FirstAttempt(record).kind = "Ok") =>
         LET O == last'.offset
             holder == segments'[active_segment + 1]
             tail == segments'[Len(segments')]
         IN /\ last'.kind = "Ok"
            /\ IF is_maxed(holder, config)
                 THEN /\ Len(segments') = Len(segments) + 1
                      /\ active_segment' = Len(segments)
                      /\ tail.base_offset = O + 1
                      /\ tail.next_offset = O + 1
                      /\ tail.store.size = 0
                      /\ tail.index.size = 0
                      /\ files'[tail.file].store = <<>>
                 ELSE /\ Len(segments') = Len(segments)
                      /\ active_segment' = active_segment]_vars

\* C24: the log never gets stuck on a full index: after every successful
\* Log::append the index of the active segment takes one more 12-byte entry,
\* and no Log::append of a record that fits in an empty store fails with
\* IndexFull.
C24_NeverIndexFull ==
  [][\A record \in Records :
       AppendCall(record) =>
         /\ last'.kind = "Ok" =>
              /\ active_segment' < Len(segments')
              /\ segments'[active_segment' + 1].index.size + INDEX_ENTRY_LENGTH
                   <= config.max_index_bytes
         /\ FitsEmpty(record) => last'.kind # "IndexFull"]_vars

\* the positions at which the frames of a store file start
RECURSIVE FrameStarts(_, _)
FrameStarts(bytes, pos) ==
  IF pos + LEN_WIDTH > Len(bytes) THEN <<>>
  ELSE <<pos>> \o FrameStarts(bytes, pos + LEN_WIDTH
                                       + ReadLen(SubSeq(bytes, pos + 1, pos + LEN_WIDTH)))

\* the store file of the segment holds as many frames as its index holds
\* entries, and entry k points at the start of frame k
InStep(segment, fs) ==
  LET starts == FrameStarts(fs[segment.file].store, 0)
      n == segment.index.size \div INDEX_ENTRY_LENGTH
  IN /\ Len(starts) = n
     /\ \A k \in 1..n :
          LET e == IndexRead(segment.index, fs[segment.file].index, k - 1)
          IN e.kind = "Some" /\ e.entry.position = starts[k]

\* C25: store and index of a segment stay in step: after every
\* Segment::append the store holds one frame per index entry, entry k pointing
\* at frame k, and an append that fails leaves store.size as it was.
C25_InStep ==
  [][\A record \in Records :
       SegAppendCall(record) =>
         /\ InStep(segments'[1], files')
         /\ last'.kind # "Ok" => segments'[1].store.size = TheSegment.store.size]_vars

\* no two segments of the list are based at the same offset or opened on the
\* same directory
DistinctSegments(segs) ==
  \A i, j \in 1..Len(segs) :
    i # j => /\ segs[i].base_offset # segs[j].base_offset
             /\ segs[i].dir # segs[j].dir

\* C26: on a log created empty and not truncated, an append of a record that
\* passes the size check but fits in no empty store fails and leaves a list
\* without two segments on one base_offset or directory, on which an append
\* of a record that fits succeeds with the offset the active segment was to
\* assign next.
C26_Oversize ==
  [][\A record \in Records :
       (/\ AppendCall(record)
        /\ reopens = 0 /\ ~truncated
        /\ DistinctSegments(segments)
        /\ Len(record.value) <= config.max_record_size_kb
        /\ ~FitsEmpty(record)) =>
         /\ last'.kind \notin {"Ok", "Panic"}
         /\ DistinctSegments(segments')
         /\ \A later \in Records :
              (Len(later.value) <= config.max_record_size_kb /\ FitsEmpty(later)) =>
                LET r == LogAppend(TheLog', later, config, overflow_checks)
                IN /\ r.kind = "Ok"
                   /\ r.offset = segments[active_segment + 1].next_offset]_vars

\* C27: the segment list is never empty and never indexed out of bounds:
\* every call leaves at least one segment and an active_segment inside the
\* list, and the removal loop of Log::truncate removes at indices inside it.
C27_InBounds ==
  [][/\ segments' # <<>>
     /\ active_segment' < Len(segments')
     /\ \A lowest \in Lowests :
          TruncateCall(lowest) =>
            LET removed == RemoveLoop(segments, 0, lowest,
                                      [panic |-> FALSE, files |-> files, dirs |-> dirs,
                                       idx |-> <<>>], <<>>)
            IN ~DropLoop(segments, removed.files, removed.idx).panic]_vars

\* Segment::append of the record on the segment gets past the store check and
\* computes record_offset - base_offset
Subtracts(segment, record) ==
  can_store_record(segment.store, Len(Encode(Assigned(record, segment.next_offset))),
                   config)

\* C28: the unsigned subtractions never go below zero: next_offset - 1 of
\* highest_offset() in any state of the log, offset - base_offset of the
\* Segment::read a Log::read delegates to, and record_offset - base_offset of
\* the Segment::append calls Log::append makes (on the active segment and, after
\* StoreFull, on the segment opened for the retry).
C28_NoUnderflow ==
  [][/\ segments # <<>> => ~Underflows(segments[Len(segments)].next_offset, 1)
     /\ \A offset \in Offsets :
          (ReadCall(offset) /\ segments # <<>>) =>
            ~Underflows(offset, segments[RoutedSegment(TheLog, offset)].base_offset)
     /\ \A record \in Records :
          (/\ AppendCall(record)
           /\ Len(record.value) <= config.max_record_size_kb
           /\ active_segment < Len(segments)) =>
            LET active == segments[active_segment + 1]
                l2 == new_segment(TheLog, active.next_offset, config)
                fresh == l2.segments[l2.active_segment + 1]
            IN IF Subtracts(active, record)
                 THEN ~Underflows(active.next_offset, active.base_offset)
                 ELSE Subtracts(fresh, record) =>
                        ~Underflows(fresh.next_offset, fresh.base_offset)]_vars

====
